---------------------------- MODULE Spec2Model ----------------------------
(***************************************************************************)
(* Model of src/app.py (Locks Analyser): loading and validating data.csv,  *)
(* normalising row numbers, the range-integrity check, the range analysis  *)
(* and the single-row lookup, and the session flow of main().              *)
(*                                                                         *)
(* Representation.  A Python str is a sequence of one-character strings    *)
(* (<<"0","1">> is "01"), compared by code point as Python compares it.    *)
(* A pandas cell is such a string or NaN (a blank cell read with           *)
(* dtype=str).  Python's None is the empty tuple and a present value x is  *)
(* the one-element tuple <<x>>, so "if error:" is error # None.  The       *)
(* data frame is a sequence of rows of equal length; column c of pandas    *)
(* is element c+1 of the row.  The input alphabet of the model is the      *)
(* decimal digits, "-" and the letter "x".                                 *)
(***************************************************************************)
EXTENDS Integers, Sequences, FiniteSets, TLC

VARIABLES
    pc,                 \* position of the running script / call
    file,               \* data.csv on disk
    df,                 \* load_data's frame (None before loading)
    load_error,         \* load_data's error
    validation_errors,  \* validate_data's list
    start_range,        \* widget "От:"
    end_range,          \* widget "До:"
    is_skat,            \* checkbox "Это СКАТ?"
    results,            \* analyze_range's first output
    error,              \* analyze_range's second output
    row_number,         \* widget "Номер строки:"
    row_data,           \* get_single_row's first output
    row_error,          \* get_single_row's second output
    normalized_num      \* normalize_row_number's output

vars == <<pc, file, df, load_error, validation_errors, start_range, end_range,
          is_skat, results, error, row_number, row_data, row_error,
          normalized_num>>

-----------------------------------------------------------------------------
(* Bounds of the model *)

\* longest string typed into a row-number field (SpecNormalize)
MaxLen == 7
\* most rows of a data frame in the analysis specifications
MaxRows == 2
\* most rows of a data frame in the validation specification
MaxValRows == 4
\* most non-blank cells of the freely chosen row of a data frame
MaxFilled == 2
\* widest analysed range: int(end) - int(start) is at most MaxSpan
MaxSpan == 2

-----------------------------------------------------------------------------
(* Python values *)

None == << >>
Some(x) == <<x>>
NaN == <<"NaN">>

Digits == {"0", "1", "2", "3", "4", "5", "6", "7", "8", "9"}

\* ord(c) for the characters of the model's alphabet
Ord(c) ==
    CASE c = "-" -> 45
      [] c = "0" -> 48 [] c = "1" -> 49 [] c = "2" -> 50 [] c = "3" -> 51
      [] c = "4" -> 52 [] c = "5" -> 53 [] c = "6" -> 54 [] c = "7" -> 55
      [] c = "8" -> 56 [] c = "9" -> 57
      [] c = "a" -> 97 [] c = "n" -> 110 [] c = "x" -> 120

DigitVal(c) == Ord(c) - 48
DigitChar(d) == CHOOSE c \in Digits : DigitVal(c) = d

\* Python's str comparison a <= b: by code point, a proper prefix is smaller
RECURSIVE StrLE(_, _)
StrLE(a, b) ==
    IF a = << >> THEN TRUE
    ELSE IF b = << >> THEN FALSE
    ELSE IF Head(a) = Head(b) THEN StrLE(Tail(a), Tail(b))
    ELSE Ord(Head(a)) < Ord(Head(b))

IsDigits(s) == Len(s) > 0 /\ \A i \in 1..Len(s) : s[i] \in Digits

\* int(s) succeeds on a str: an optional sign followed by decimal digits
CanInt(s) ==
    /\ s # NaN
    /\ Len(s) > 0
    /\ IF Head(s) = "-" THEN IsDigits(Tail(s)) ELSE IsDigits(s)

RECURSIVE DecValue(_)
DecValue(s) ==
    IF s = << >> THEN 0
    ELSE 10 * DecValue(SubSeq(s, 1, Len(s) - 1)) + DigitVal(s[Len(s)])

\* int(s) where CanInt(s)
IntOf(s) == IF Head(s) = "-" THEN 0 - DecValue(Tail(s)) ELSE DecValue(s)

\* str(n) for n >= 0
RECURSIVE StrNat(_)
StrNat(n) ==
    IF n < 10 THEN <<DigitChar(n)>>
    ELSE Append(StrNat(n \div 10), DigitChar(n % 10))

RECURSIVE ZeroFill(_, _)
ZeroFill(s, w) == IF Len(s) >= w THEN s ELSE ZeroFill(<<"0">> \o s, w)

\* the field width of the format specification 06d
PadWidth == 6

\* f"{n:06d}": zero-padded to six characters, the sign counted in the width
Format06d(n) ==
    IF n < 0 THEN <<"-">> \o ZeroFill(StrNat(0 - n), PadWidth - 1)
    ELSE ZeroFill(StrNat(n), PadWidth)

\* def normalize_row_number(row_num)
normalize_row_number(row_num) ==
    IF CanInt(row_num) THEN Some(Format06d(IntOf(row_num))) ELSE None

\* Python truth value of an optional str: None and "" are false
Truthy(opt) == opt # None /\ opt[1] # << >>

-----------------------------------------------------------------------------
(* The data frame *)

\* df.shape[1]
NCols(frame) == IF frame = << >> THEN 0 ELSE Len(frame[1])
\* row[col_idx], pandas columns being numbered from 0
Cell(row, col_idx) == row[col_idx + 1]
\* str(cell): a str is itself, NaN prints as "nan"
StrOf(cell) == IF cell = NaN THEN <<"n", "a", "n">> ELSE cell
\* df[0].tolist()
RowNumbers(frame) == [i \in 1..Len(frame) |-> Cell(frame[i], 0)]

Range(seq) == {seq[i] : i \in 1..Len(seq)}
Count(seq, x) == Cardinality({i \in 1..Len(seq) : seq[i] = x})

\* the keys of Counter(seq), in order of first occurrence
RECURSIVE CounterKeys(_)
CounterKeys(seq) ==
    IF seq = << >> THEN << >>
    ELSE LET front == SubSeq(seq, 1, Len(seq) - 1)
             last == seq[Len(seq)]
         IN  IF last \in Range(front) THEN CounterKeys(front)
             ELSE Append(CounterKeys(front), last)

\* Counter(seq) as a mapping value -> count
Counter(seq) == [x \in Range(seq) |-> Count(seq, x)]

-----------------------------------------------------------------------------
(* load_data *)

\* the minimum number of columns validate_data accepts
RequiredCols == 7

\* def load_data(): (df, None) or (None, message)
load_data(f) ==
    IF ~f.exists THEN <<None, Some(<<"FileNotFound">>)>>
    ELSE IF ~f.readable THEN <<None, Some(<<"ReadError">>)>>
    ELSE <<Some(f.table), None>>

-----------------------------------------------------------------------------
(* validate_data *)

\* an upper limit that lets 100 through
OutOfRangeLoose(num_val) == num_val < 10 \/ num_val > 100

\* line 68: num_val < 10 or num_val > 99
OutOfRange(num_val) == num_val < 10 \/ num_val > 99

\* line 55: the items of Counter(row_numbers) with count > 1
Duplicates(row_numbers) ==
    SelectSeq(CounterKeys(row_numbers), LAMBDA item : Count(row_numbers, item) > 1)

\* lines 56-57: one message naming all duplicated row numbers
DuplicateErrors(frame) ==
    LET duplicates == Duplicates(RowNumbers(frame))
    IN  IF duplicates # << >> THEN << <<"DuplicateRowNumbers", duplicates>> >>
        ELSE << >>

\* lines 63-79: the errors of one cell (the alphabet of the model holds no
\* white space, so strip() returns its argument)
CellErrors(row, col_idx) ==
    IF col_idx < Len(row) THEN
        LET value == StrOf(Cell(row, col_idx))
        IN  IF value # << >> /\ value # <<"n", "a", "n">> THEN
                IF CanInt(value) THEN
                    IF OutOfRange(IntOf(value))
                    THEN << <<"NotTwoDigit", Cell(row, 0), col_idx, value>> >>
                    ELSE << >>
                ELSE << <<"NotANumber", Cell(row, 0), col_idx, value>> >>
            ELSE << >>
    ELSE << <<"MissingValue", Cell(row, 0), col_idx>> >>

\* lines 62-79: for col_idx in range(1, 7)
RECURSIVE RowErrors(_, _)
RowErrors(row, col_idx) ==
    IF col_idx >= RequiredCols THEN << >>
    ELSE CellErrors(row, col_idx) \o RowErrors(row, col_idx + 1)

\* lines 60-79: for idx, row in df.iterrows()
RECURSIVE SlotErrors(_, _)
SlotErrors(frame, idx) ==
    IF idx > Len(frame) THEN << >>
    ELSE RowErrors(frame[idx], 1) \o SlotErrors(frame, idx + 1)

\* def validate_data(df)
validate_data(frame) ==
    IF NCols(frame) < RequiredCols THEN << <<"NotEnoughColumns">> >>
    ELSE DuplicateErrors(frame) \o SlotErrors(frame, 1)

-----------------------------------------------------------------------------
(* check_range_integrity and get_single_row *)

\* a range that leaves out its last row number
RangeStopShort(end_num) == IntOf(end_num)

\* line 89: the exclusive stop of range(int(start_num), int(end_num) + 1)
RangeStop(end_num) == IntOf(end_num) + 1

\* lines 89-92: the loop collecting the missing row numbers, ascending
RECURSIVE MissingFrom(_, _, _)
MissingFrom(existing_rows, i, stop) ==
    IF i >= stop THEN << >>
    ELSE LET row_num == Format06d(i)
         IN  (IF row_num \notin existing_rows THEN <<row_num>> ELSE << >>)
                 \o MissingFrom(existing_rows, i + 1, stop)

\* def check_range_integrity(df, start_num, end_num)
check_range_integrity(frame, start_num, end_num) ==
    LET existing_rows == {StrOf(n) : n \in Range(RowNumbers(frame))}
    IN  MissingFrom(existing_rows, IntOf(start_num), RangeStop(end_num))

\* df[df[0] == normalized_num]
RowsEqual(frame, num) ==
    SelectSeq(frame, LAMBDA row : Cell(row, 0) = num)

\* def get_single_row(df, row_number): (row, None) or (None, message)
get_single_row(frame, row_num) ==
    LET normalized == normalize_row_number(row_num)
    IN  IF ~Truthy(normalized) THEN <<None, Some(<<"InvalidRowNumber">>)>>
        ELSE LET found == RowsEqual(frame, normalized[1])
             IN  IF found = << >>
                 THEN <<None, Some(<<"RowNotFound", normalized[1]>>)>>
                 ELSE <<Some(found[1]), None>>

-----------------------------------------------------------------------------
(* analyze_range *)

\* abs(x)
Abs(x) == IF x < 0 THEN 0 - x ELSE x

\* a difference of digits that keeps its sign
SignedDifference(num) ==
    IF num >= 10 /\ num <= 99 THEN Some((num \div 10) - (num % 10)) ELSE None

\* def calculate_digit_difference(num), for an int: None unless str(num) has
\* exactly two characters
calculate_digit_difference(num) ==
    LET num_str == IF num < 0 THEN <<"-">> \o StrNat(0 - num) ELSE StrNat(num)
    IN  IF Len(num_str) = 2 /\ IsDigits(num_str)
        THEN Some(Abs(DigitVal(num_str[1]) - DigitVal(num_str[2])))
        ELSE None

\* def is_mirror_number(num), for an int: both digits equal
is_mirror_number(num) ==
    LET num_str == IF num < 0 THEN <<"-">> \o StrNat(0 - num) ELSE StrNat(num)
    IN  Len(num_str) = 2 /\ num_str[1] = num_str[2]

\* a scan that takes six columns in either mode
AlwaysSix(skat) == 6

\* line 162: cols_to_analyze = 5 if is_skat else 6
cols_to_analyze(skat) == IF skat THEN 5 ELSE 6

\* a special set holding every number of two equal digits
AllRepdigits == {11, 22, 33, 44, 55, 66, 77, 88, 99}

\* line 173
special_numbers == {11, 22, 33, 44, 55, 66, 77}

\* line 180: 10 <= value <= 99
TwoDigit(value) == 10 <= value /\ value <= 99

\* lines 164-171
EmptyResults ==
    [total_count |-> 0, doubled_count |-> 0, quadrupled_count |-> 0,
     difference_groups |-> << >>, mirror_numbers |-> << >>,
     special_numbers |-> << >>]

\* lines 191-195: results["difference_groups"][diff].append(value)
GroupAppend(groups, value) ==
    LET diff == calculate_digit_difference(value)
    IN  IF diff # None THEN
            LET d == diff[1]
                old == IF d \in DOMAIN groups THEN groups[d] ELSE << >>
            IN  [k \in (DOMAIN groups) \cup {d} |->
                    IF k = d THEN Append(old, value) ELSE groups[k]]
        ELSE groups

\* the number with the two digits of value exchanged
Mirror(value) == 10 * (value % 10) + (value \div 10)

\* a count that also lists the mirror pair of the value in SKAT mode
CountValueMirrored(res, value, skat) ==
    LET special == skat /\ value \in special_numbers
        own == GroupAppend(res.difference_groups, value)
    IN  [total_count |-> res.total_count + 1,
         doubled_count |->
             IF special THEN res.doubled_count ELSE res.doubled_count + 2,
         quadrupled_count |->
             IF special THEN res.quadrupled_count + 4 ELSE res.quadrupled_count,
         difference_groups |->
             IF skat /\ Mirror(value) # value THEN GroupAppend(own, Mirror(value))
             ELSE own,
         mirror_numbers |->
             IF is_mirror_number(value) THEN Append(res.mirror_numbers, value)
             ELSE res.mirror_numbers,
         special_numbers |->
             IF special THEN Append(res.special_numbers, value)
             ELSE res.special_numbers]

\* lines 181-199: one two-digit value counted
CountValue(res, value, skat) ==
    LET special == skat /\ value \in special_numbers
    IN  [total_count |-> res.total_count + 1,
         doubled_count |->
             IF special THEN res.doubled_count ELSE res.doubled_count + 2,
         quadrupled_count |->
             IF special THEN res.quadrupled_count + 4 ELSE res.quadrupled_count,
         difference_groups |-> GroupAppend(res.difference_groups, value),
         mirror_numbers |->
             IF is_mirror_number(value) THEN Append(res.mirror_numbers, value)
             ELSE res.mirror_numbers,
         special_numbers |->
             IF special THEN Append(res.special_numbers, value)
             ELSE res.special_numbers]

\* lines 177-201: one cell; int() failing is swallowed by the bare except
ScanCell(res, row, col_idx, skat) ==
    IF col_idx < Len(row) THEN
        IF CanInt(Cell(row, col_idx)) THEN
            IF TwoDigit(IntOf(Cell(row, col_idx)))
            THEN CountValue(res, IntOf(Cell(row, col_idx)), skat)
            ELSE res
        ELSE res
    ELSE res

\* line 176: for col_idx in range(1, cols_to_analyze + 1)
RECURSIVE ScanRow(_, _, _, _)
ScanRow(res, row, col_idx, skat) ==
    IF col_idx > cols_to_analyze(skat) THEN res
    ELSE ScanRow(ScanCell(res, row, col_idx, skat), row, col_idx + 1, skat)

\* line 175: for _, row in df_filtered.iterrows()
RECURSIVE ScanFrame(_, _, _, _)
ScanFrame(res, frame, idx, skat) ==
    IF idx > Len(frame) THEN res
    ELSE ScanFrame(ScanRow(res, frame[idx], 1, skat), frame, idx + 1, skat)

\* lines 154-156: the rows whose number, as a str, lies between the bounds
FilterRange(frame, start_num, end_num) ==
    SelectSeq(frame, LAMBDA row :
        /\ StrLE(start_num, StrOf(Cell(row, 0)))
        /\ StrLE(StrOf(Cell(row, 0)), end_num))

\* a failure that hands back a result as well
FailureWithResult(message) == <<Some(EmptyResults), Some(message)>>

\* lines 143, 146, 151, 159: return None, message
Failure(message) == <<None, Some(message)>>
\* line 203: return results, None
Success(res) == <<Some(res), None>>

\* lines 230-233 (and 320-323): per difference, Counter(numbers) as displayed
DisplayedCounts(res) ==
    [diff \in DOMAIN res.difference_groups |->
        Counter(res.difference_groups[diff])]

\* def analyze_range(df, start_range, end_range, is_skat)
analyze_range(frame, start, end, skat) ==
    LET start_num == normalize_row_number(start)
        end_num == normalize_row_number(end)
    IN  IF ~Truthy(start_num) \/ ~Truthy(end_num)
        THEN Failure(<<"InvalidRangeFormat">>)
        ELSE IF IntOf(start_num[1]) > IntOf(end_num[1])
        THEN Failure(<<"RangeInverted">>)
        ELSE LET missing_rows ==
                     check_range_integrity(frame, start_num[1], end_num[1])
             IN  IF missing_rows # << >>
                 THEN Failure(<<"RangeIncomplete", missing_rows>>)
                 ELSE LET df_filtered ==
                              FilterRange(frame, start_num[1], end_num[1])
                      IN  IF df_filtered = << >>
                          THEN Failure(<<"EmptyRange">>)
                          ELSE Success(ScanFrame(EmptyResults, df_filtered, 1, skat))

-----------------------------------------------------------------------------
(* Inputs *)

\* the canonical row number of n
Id(n) == Format06d(n)

\* the characters typed into a row-number field
InputChars == {"0", "1", "-", "x"}
Strings(n) == UNION {[1..k -> InputChars] : k \in 0..n}

\* a row: its number, then the given slots, then blank cells up to ncols
MakeRow(id, slots, ncols) ==
    [c \in 1..ncols |->
        IF c = 1 THEN id
        ELSE IF c - 1 <= Len(slots) THEN slots[c - 1] ELSE NaN]

\* the slot values 10, 20, 30, 40, 50, 60
ExampleSlots ==
    <<<<"1", "0">>, <<"2", "0">>, <<"3", "0">>,
      <<"4", "0">>, <<"5", "0">>, <<"6", "0">>>>

\* slot sequences of length n with at most MaxFilled non-blank cells from vals
SparseSlots(n, vals) ==
    UNION {{[c \in 1..n |-> IF c \in S THEN f[c] ELSE NaN] : f \in [S -> vals]} :
           S \in {T \in SUBSET (1..n) : Cardinality(T) <= MaxFilled}}

\* the slots shifted cyclically to the right by k places
Shifted(slots, k) ==
    [c \in 1..Len(slots) |-> slots[((c - 1 - k) % Len(slots)) + 1]]

\* cell contents of the aggregation inputs: a mirror pair, a special and a
\* non-special number of two equal digits, and a one-digit number
AggCells == {<<"1", "2">>, <<"2", "1">>, <<"5", "5">>, <<"8", "8">>, <<"5">>}

\* a frame of n rows numbered 1..n with one column beyond slot 6; row i
\* holds the given slots shifted by i-1 places
AggFrame(n, slots) ==
    [i \in 1..n |-> MakeRow(Id(i), Shifted(slots, i - 1), RequiredCols + 1)]

\* row numbers of the range inputs: canonical ones, one stored without
\* padding, and the two around the 6-digit limit
RangeIds == {Id(1), Id(2), Id(3), <<"1">>, Id(999999), Id(1000000)}

\* endpoints typed into the range fields
RangeEndpoints ==
    {<< >>, <<"x">>, <<"1">>, <<"0", "2">>, Id(3), <<"-", "1">>,
     Id(999999), Id(1000000)}

\* the analysed range spans at most MaxSpan row numbers beyond its start
SpanOK(start, end) ==
    (CanInt(start) /\ CanInt(end)) => IntOf(end) - IntOf(start) <= MaxSpan

\* a 7-column frame of example rows under the given row numbers
RangeFrame(ids) ==
    [i \in 1..Len(ids) |-> MakeRow(ids[i], ExampleSlots, RequiredCols)]

\* cell contents of the validation inputs: just outside and on the limits of
\* [10, 99], and a non-number
ValCells == {<<"9">>, <<"9", "9">>, <<"1", "0", "0">>, <<"x">>}

\* the numbers of columns of the validation inputs
ColumnCounts == {RequiredCols - 1, RequiredCols, RequiredCols + 1}

\* a frame under the given row numbers: the first row holds the given
\* slots, the others the example slots
ValFrame(ids, slots, ncols) ==
    [i \in 1..Len(ids) |->
        MakeRow(ids[i], IF i = 1 THEN slots ELSE ExampleSlots, ncols)]

\* data.csv absent, unreadable, or holding a table
MissingFile == [exists |-> FALSE, readable |-> FALSE, table |-> << >>]
UnreadableFile == [exists |-> TRUE, readable |-> FALSE, table |-> << >>]
DataFile(table) == [exists |-> TRUE, readable |-> TRUE, table |-> table]

\* slot contents of the session's files: valid, a one-digit value, blank
SessionSlots ==
    {ExampleSlots,
     <<<<"1", "2">>, <<"5">>, <<"3", "0">>, <<"4", "0">>, <<"5", "5">>, <<"2", "1">>>>,
     << >>}

\* the session's files
SessionFiles ==
    {MissingFile, UnreadableFile}
    \cup UNION {{DataFile([i \in 1..n |-> MakeRow(ids[i], slots[i], ncols)]) :
                 ids \in [1..n -> {Id(1), Id(2), Id(999999), Id(1000000)}],
                 slots \in [1..n -> SessionSlots],
                 ncols \in ColumnCounts} : n \in 1..MaxRows}

\* what the user types into the range and row-number fields of the session
SessionTexts == {<< >>, <<"x">>, <<"1">>, <<"0", "2">>, Id(999999), Id(1000000)}

-----------------------------------------------------------------------------
(* The session: one run of main() per interaction *)

\* a session that goes on after validation errors
NeverStop(errors) == FALSE

\* lines 252-254: if load_error: st.stop()
StopOnLoadError(err) == err # None
\* lines 261-265: if validation_errors: st.stop()
StopOnValidationErrors(errors) == errors # << >>

Init ==
    /\ pc = "start"
    /\ file \in SessionFiles
    /\ df = None /\ load_error = None /\ validation_errors = None
    /\ start_range = << >> /\ end_range = << >> /\ is_skat = FALSE
    /\ results = None /\ error = None
    /\ row_number = << >> /\ row_data = None /\ row_error = None
    /\ normalized_num = None

\* lines 249-257
LoadData ==
    /\ pc = "start"
    /\ df' = load_data(file)[1]
    /\ load_error' = load_data(file)[2]
    /\ pc' = IF StopOnLoadError(load_error') THEN "stopped" ELSE "loaded"
    /\ UNCHANGED <<file, validation_errors, start_range, end_range, is_skat,
                   results, error, row_number, row_data, row_error, normalized_num>>

\* lines 260-267
ValidateData ==
    /\ pc = "loaded"
    /\ validation_errors' = Some(validate_data(df[1]))
    /\ pc' = IF StopOnValidationErrors(validation_errors'[1]) THEN "stopped"
             ELSE "ready"
    /\ UNCHANGED <<file, df, load_error, start_range, end_range, is_skat,
                   results, error, row_number, row_data, row_error, normalized_num>>

\* lines 277-289 and 394-395: the button "Analyse the range" pressed
AnalyzeButton ==
    /\ pc = "ready"
    /\ \E s \in SessionTexts, e \in SessionTexts, skat \in BOOLEAN :
        /\ SpanOK(s, e)
        /\ start_range' = s /\ end_range' = e /\ is_skat' = skat
        /\ IF s # << >> /\ e # << >>
           THEN /\ results' = analyze_range(df[1], s, e, skat)[1]
                /\ error' = analyze_range(df[1], s, e, skat)[2]
                /\ pc' = "analyzed"
           ELSE /\ UNCHANGED <<results, error>>
                /\ pc' = "warned"
    /\ UNCHANGED <<file, df, load_error, validation_errors, row_number,
                   row_data, row_error, normalized_num>>

\* lines 400-420: the button "Show the row" pressed
LookupButton ==
    /\ pc = "ready"
    /\ \E r \in SessionTexts :
        /\ row_number' = r
        /\ IF r # << >>
           THEN /\ row_data' = get_single_row(df[1], r)[1]
                /\ row_error' = get_single_row(df[1], r)[2]
                /\ pc' = "looked"
           ELSE /\ UNCHANGED <<row_data, row_error>>
                /\ pc' = "warned"
    /\ UNCHANGED <<file, df, load_error, validation_errors, start_range,
                   end_range, is_skat, results, error, normalized_num>>

\* the run ends with no button pressed
NoButton ==
    /\ pc = "ready"
    /\ pc' = "idle"
    /\ UNCHANGED <<file, df, load_error, validation_errors, start_range,
                   end_range, is_skat, results, error, row_number, row_data,
                   row_error, normalized_num>>

\* the next interaction runs main() again from the top
Rerun ==
    /\ pc \in {"stopped", "analyzed", "looked", "warned", "idle"}
    /\ pc' = "start"
    /\ df' = None /\ load_error' = None /\ validation_errors' = None
    /\ start_range' = << >> /\ end_range' = << >> /\ is_skat' = FALSE
    /\ results' = None /\ error' = None
    /\ row_number' = << >> /\ row_data' = None /\ row_error' = None
    /\ UNCHANGED <<file, normalized_num>>

Next ==
    \/ LoadData
    \/ ValidateData
    \/ AnalyzeButton
    \/ LookupButton
    \/ NoButton
    \/ Rerun

Spec == Init /\ [][Next]_vars

-----------------------------------------------------------------------------
(* The functions called on their own *)

\* everything but the named inputs is unset
Unset ==
    /\ file = MissingFile
    /\ load_error = None /\ validation_errors = None
    /\ results = None /\ error = None
    /\ row_data = None /\ row_error = None
    /\ normalized_num = None

\* normalize_row_number(row_number)
InitNormalize ==
    /\ pc = "call"
    /\ row_number \in Strings(MaxLen)
    /\ df = None /\ start_range = << >> /\ end_range = << >> /\ is_skat = FALSE
    /\ Unset

NormalizeCall ==
    /\ pc = "call"
    /\ normalized_num' = normalize_row_number(row_number)
    /\ pc' = "return"
    /\ UNCHANGED <<file, df, load_error, validation_errors, start_range,
                   end_range, is_skat, results, error, row_number, row_data,
                   row_error>>

NextNormalize == NormalizeCall

SpecNormalize == InitNormalize /\ [][NextNormalize]_vars

\* validate_data(df): up to MaxValRows rows numbered 1 or 2 in any order
InitValidate ==
    /\ pc = "call"
    /\ \E n \in 1..MaxValRows, ncols \in ColumnCounts :
        \E ids \in [1..n -> {Id(1), Id(2)}], s \in SparseSlots(ncols - 1, ValCells) :
            df = Some(ValFrame(ids, s, ncols))
    /\ row_number = << >> /\ start_range = << >> /\ end_range = << >>
    /\ is_skat = FALSE
    /\ Unset

ValidateCall ==
    /\ pc = "call"
    /\ validation_errors' = Some(validate_data(df[1]))
    /\ pc' = "return"
    /\ UNCHANGED <<file, df, load_error, start_range, end_range, is_skat,
                   results, error, row_number, row_data, row_error, normalized_num>>

NextValidate == ValidateCall

SpecValidate == InitValidate /\ [][NextValidate]_vars

\* the aggregation inputs: a sparse frame and a range 1..k inside it
InitAggregate ==
    \E n \in 1..MaxRows, s \in SparseSlots(RequiredCols, AggCells), k \in 1..MaxRows :
        /\ k <= n
        /\ df = Some(AggFrame(n, s))
        /\ start_range = <<"1">>
        /\ end_range = StrNat(k)

\* the range inputs: example rows under any row numbers, any endpoints
InitRange ==
    \E n \in 1..MaxRows, s \in RangeEndpoints, e \in RangeEndpoints :
        \E ids \in [1..n -> RangeIds] :
            /\ SpanOK(s, e)
            /\ df = Some(RangeFrame(ids))
            /\ start_range = s
            /\ end_range = e

\* analyze_range(df, start_range, end_range, is_skat)
InitAnalyze ==
    /\ pc = "call"
    /\ InitAggregate \/ InitRange
    /\ is_skat \in BOOLEAN
    /\ row_number = << >>
    /\ Unset

AnalyzeCall ==
    /\ pc = "call"
    /\ results' = analyze_range(df[1], start_range, end_range, is_skat)[1]
    /\ error' = analyze_range(df[1], start_range, end_range, is_skat)[2]
    /\ pc' = "return"
    /\ UNCHANGED <<file, df, load_error, validation_errors, start_range,
                   end_range, is_skat, row_number, row_data, row_error,
                   normalized_num>>

NextAnalyze == AnalyzeCall

SpecAnalyze == InitAnalyze /\ [][NextAnalyze]_vars

-----------------------------------------------------------------------------
(* Claims about the session *)

\* a frame validation has nothing to report on, stated without validate_data
TwoDigitCell(cell) ==
    cell = NaN \/ (CanInt(cell) /\ IntOf(cell) >= 10 /\ IntOf(cell) <= 99)
DatasetValid(frame) ==
    /\ NCols(frame) >= 7
    /\ \A i, j \in 1..Len(frame) : frame[i][1] = frame[j][1] => i = j
    /\ \A i \in 1..Len(frame) : \A c \in 2..7 : TwoDigitCell(frame[i][c])

\* C1: a run of main() performs a range analysis or a row lookup only after
\* load_data succeeded and validate_data returned no error on that very
\* frame; a run whose load or validation reported an error stops with no
\* analysis and no lookup performed.
C1_AnalysisOnlyAfterValidation ==
    /\ pc \in {"analyzed", "looked"} =>
        /\ file.exists /\ file.readable
        /\ load_error = None /\ df = Some(file.table)
        /\ validation_errors = Some(<< >>)
        /\ DatasetValid(df[1])
    /\ (\/ load_error # None
        \/ (validation_errors # None /\ validation_errors[1] # << >>)
        \/ (df # None /\ pc # "loaded" /\ ~DatasetValid(df[1]))) =>
        /\ pc = "stopped"
        /\ results = None /\ error = None
        /\ row_data = None /\ row_error = None

C1_Witness == pc = "analyzed" /\ results # None /\ Len(df[1]) = 2

\* C3: load_data, analyze_range and get_single_row each return exactly one
\* of a payload and an error message: never both, never neither.
C3_ErrorOrResult ==
    /\ pc # "start" => (df = None) # (load_error = None)
    /\ pc = "analyzed" => (results = None) # (error = None)
    /\ pc = "looked" => (row_data = None) # (row_error = None)

C3_Witness == pc = "analyzed" /\ results = None /\ error = Some(<<"EmptyRange">>)

-----------------------------------------------------------------------------
(* Claims about normalize_row_number *)

\* int(s) succeeds with a value >= 0
NonNegative(s) == CanInt(s) /\ IntOf(s) >= 0

\* C4: a string of 1 to 6 decimal digits normalises to the 6-character
\* zero-padded decimal string of the same integer value, and an input that
\* is not parseable as a non-negative integer (the empty string included)
\* makes normalize fail.
C4_NormalizeContract ==
    pc = "return" =>
        /\ (IsDigits(row_number) /\ Len(row_number) <= 6) =>
               /\ normalized_num # None
               /\ Len(normalized_num[1]) = 6
               /\ IsDigits(normalized_num[1])
               /\ DecValue(normalized_num[1]) = DecValue(row_number)
        /\ ~NonNegative(row_number) => normalized_num = None

-----------------------------------------------------------------------------
(* Claims about validate_data *)

\* the row numbers occurring more than once
DupIds(frame) ==
    {frame[i][1] : i \in {k \in 1..Len(frame) :
                            \E j \in 1..Len(frame) : j # k /\ frame[j][1] = frame[k][1]}}

\* the (row, slot) places whose non-blank cell is no integer of [10, 99]
BadSlots(frame) ==
    {p \in (1..Len(frame)) \X (1..6) : ~TwoDigitCell(frame[p[1]][p[2] + 1])}

ErrorsOfKind(errs, kinds) == {k \in 1..Len(errs) : errs[k][1] \in kinds}

\* the slot errors stand for the bad slots, one each, each naming its row
\* number, position and value
SlotErrorsMatch(frame, errs) ==
    /\ Cardinality(ErrorsOfKind(errs, {"NotTwoDigit", "NotANumber"}))
           = Cardinality(BadSlots(frame))
    /\ \A p \in BadSlots(frame) :
           LET cell == frame[p[1]][p[2] + 1]
               kind == IF CanInt(cell) THEN "NotTwoDigit" ELSE "NotANumber"
           IN  \E k \in 1..Len(errs) : errs[k] = <<kind, frame[p[1]][1], p[2], cell>>

\* C9 as stated: with at least 7 columns, one error per duplicated row
\* number and one per bad slot, all in one pass, and no error exactly when
\* there is neither; with fewer columns exactly one structural error.
C9_OneErrorPerDuplicate ==
    pc = "return" =>
        LET frame == df[1]
            errs == validation_errors[1]
        IN  IF NCols(frame) >= 7 THEN
                /\ Cardinality(ErrorsOfKind(errs, {"DuplicateRowNumbers"}))
                       = Cardinality(DupIds(frame))
                /\ SlotErrorsMatch(frame, errs)
                /\ Len(errs) = Cardinality(DupIds(frame)) + Cardinality(BadSlots(frame))
                /\ (errs = << >>) <=> (DupIds(frame) = {} /\ BadSlots(frame) = {})
            ELSE errs = << <<"NotEnoughColumns">> >>

\* C9 as amended: with at least 7 columns, validation reports in one pass a
\* single error naming every duplicated row number (when there is one) and
\* one error per bad slot, blank cells giving none; the list is empty
\* exactly when there is no duplicate and no bad slot; with fewer columns
\* exactly one structural error and nothing else.
C9_ValidationReportsAll ==
    pc = "return" =>
        LET frame == df[1]
            errs == validation_errors[1]
            dups == ErrorsOfKind(errs, {"DuplicateRowNumbers"})
        IN  IF NCols(frame) >= 7 THEN
                /\ Cardinality(dups) = IF DupIds(frame) = {} THEN 0 ELSE 1
                /\ \A k \in dups :
                       /\ Range(errs[k][2]) = DupIds(frame)
                       /\ Len(errs[k][2]) = Cardinality(DupIds(frame))
                /\ SlotErrorsMatch(frame, errs)
                /\ Len(errs) = Cardinality(dups) + Cardinality(BadSlots(frame))
                /\ (errs = << >>) <=> (DupIds(frame) = {} /\ BadSlots(frame) = {})
            ELSE errs = << <<"NotEnoughColumns">> >>

C9_Witness ==
    /\ pc = "return"
    /\ NCols(df[1]) >= 7
    /\ Cardinality(DupIds(df[1])) = 2
    /\ Cardinality(BadSlots(df[1])) = 2
    /\ Len(validation_errors[1]) = 3

-----------------------------------------------------------------------------
(* Claims about analyze_range *)

\* both endpoints parse and the range is not inverted
RangeAccepted == CanInt(start_range) /\ CanInt(end_range)
                     /\ IntOf(start_range) <= IntOf(end_range)

\* s is the identity of an integer: six characters, or more without a
\* leading zero
Canonical(s) ==
    /\ CanInt(s)
    /\ \/ Len(s) = 6
       \/ Len(s) > 6 /\ (IF Head(s) = "-" THEN s[2] ELSE s[1]) # "0"

\* the integers of the range with no record of that identity
MissingInts(frame) ==
    {i \in IntOf(start_range)..IntOf(end_range) :
        ~\E r \in 1..Len(frame) : Canonical(frame[r][1]) /\ IntOf(frame[r][1]) = i}

IsRangeIncomplete(err) == err # None /\ err[1][1] = "RangeIncomplete"

\* C2: for endpoints that normalise with start <= end, analyze_range fails
\* with RangeIncomplete exactly when some integer identity of [start, end]
\* has no record, it then returns no result, and the reported list holds
\* exactly the absent identities of the range, each once.
C2_RangeIncompleteIffMissing ==
    (pc = "return" /\ RangeAccepted) =>
        /\ IsRangeIncomplete(error) <=> MissingInts(df[1]) # {}
        /\ IsRangeIncomplete(error) =>
               LET missing == error[1][2]
               IN  /\ results = None
                   /\ \A k \in 1..Len(missing) : Canonical(missing[k])
                   /\ {IntOf(missing[k]) : k \in 1..Len(missing)} = MissingInts(df[1])
                   /\ Len(missing) = Cardinality(MissingInts(df[1]))

C2_Witness ==
    /\ pc = "return" /\ RangeAccepted
    /\ IsRangeIncomplete(error)
    /\ Len(error[1][2]) = 1
    /\ IntOf(end_range) - IntOf(start_range) = 2

\* the rows whose identity is that of an integer of the range
RowsOfIntRange(frame) ==
    {r \in 1..Len(frame) :
        /\ Canonical(frame[r][1])
        /\ IntOf(frame[r][1]) \in IntOf(start_range)..IntOf(end_range)}

\* the rows the filter of analyze_range selects
RowsSelected(frame) ==
    {r \in 1..Len(frame) :
        /\ StrLE(Format06d(IntOf(start_range)), frame[r][1])
        /\ StrLE(frame[r][1], Format06d(IntOf(end_range)))}

\* C10: once both endpoints normalise, start <= end and no identity of the
\* range is missing, EmptyRange is never returned, and the filter by string
\* comparison selects the records of the integer range.
C10_EmptyRangeNeverReturned ==
    (pc = "return" /\ RangeAccepted /\ MissingInts(df[1]) = {}) =>
        /\ error # Some(<<"EmptyRange">>)
        /\ results # None
        /\ RowsSelected(df[1]) = RowsOfIntRange(df[1])

\* the frame with one cell replaced
WithCell(frame, r, col_idx, cell) ==
    [frame EXCEPT ![r] = [@ EXCEPT ![col_idx + 1] = cell]]

\* cell contents tried in place of an ignored cell
OtherCells == {NaN, <<"1", "2">>, <<"x">>}

\* C5: whatever replaces slot 6 of a record in SKAT mode, or a column beyond
\* slot 6 in either mode, analyze_range returns the same output.
C5_IgnoredSlots ==
    pc = "return" =>
        \A r \in 1..Len(df[1]) : \A cell \in OtherCells :
            \A col_idx \in 6..(NCols(df[1]) - 1) :
                (col_idx > 6 \/ is_skat) =>
                    analyze_range(WithCell(df[1], r, col_idx, cell),
                                  start_range, end_range, is_skat)
                        = <<results, error>>

C5_Witness ==
    /\ pc = "return" /\ is_skat /\ results # None
    /\ NCols(df[1]) = 8
    /\ df[1][1][7] = <<"1", "2">> /\ df[1][1][8] = <<"5", "5">>
    /\ results[1].total_count = 0

\* how often the number n stands in the first `cols` slots of the rows the
\* filter selects
Occ(n, cols) ==
    Cardinality({p \in RowsSelected(df[1]) \X (1..cols) :
        LET cell == df[1][p[1]][p[2] + 1]
        IN  CanInt(cell) /\ IntOf(cell) = n})

\* how often n is listed under stamp d, and under any stamp
ListedUnder(n, d) ==
    LET shown == DisplayedCounts(results[1])
    IN  IF d \in DOMAIN shown /\ n \in DOMAIN shown[d] THEN shown[d][n] ELSE 0
RECURSIVE SumOver(_, _)
SumOver(S, n) ==
    IF S = {} THEN 0
    ELSE LET d == CHOOSE x \in S : TRUE
         IN  ListedUnder(n, d) + SumOver(S \ {d}, n)
Listed(n) == SumOver(DOMAIN results[1].difference_groups, n)

Stamp(n) == IF n \div 10 >= n % 10 THEN (n \div 10) - (n % 10)
            ELSE (n % 10) - (n \div 10)

TwoDigitNumbers == 10..99

\* the two-digit numbers standing anywhere in the frame or in the result,
\* and their mirrors: for every other number all counts are zero
NumbersAtStake ==
    LET inFrame == {IntOf(df[1][p[1]][p[2]]) :
                       p \in {q \in (1..Len(df[1])) \X (2..NCols(df[1])) :
                                 CanInt(df[1][q[1]][q[2]])}}
        inResult == UNION {Range(results[1].difference_groups[d]) :
                              d \in DOMAIN results[1].difference_groups}
                    \cup Range(results[1].mirror_numbers)
        seen == inFrame \cup inResult
    IN  (seen \cup {Mirror(n) : n \in seen \cap TwoDigitNumbers}) \cap TwoDigitNumbers

OccIn(S, cols) ==
    Cardinality({p \in RowsSelected(df[1]) \X (1..cols) :
        LET cell == df[1][p[1]][p[2] + 1]
        IN  CanInt(cell) /\ IntOf(cell) \in S})

\* the numbers 11, 22, ..., 77
SpecialSet == {n \in TwoDigitNumbers : n % 11 = 0 /\ n <= 77}

\* C8: in SKAT mode an occurrence of a special number adds 4 to the
\* quadrupled count and any other occurrence (88 and 99 too) adds 2 to the
\* doubled count; in Standard mode every occurrence adds 2; so the total is
\* 2 * non-special + 4 * special, and 2 * total_count in Standard mode.
C8_WeightedTotal ==
    (pc = "return" /\ results # None) =>
        LET res == results[1]
            cols == IF is_skat THEN 5 ELSE 6
            special == IF is_skat THEN OccIn(SpecialSet, cols) ELSE 0
            other == OccIn(TwoDigitNumbers, cols) - special
        IN  /\ res.total_count = special + other
            /\ res.quadrupled_count = 4 * special
            /\ res.doubled_count = 2 * other
            /\ res.doubled_count + res.quadrupled_count = 2 * other + 4 * special
            /\ ~is_skat => res.doubled_count + res.quadrupled_count
                               = 2 * res.total_count

C8_Witness ==
    /\ pc = "return" /\ is_skat /\ results # None
    /\ results[1].quadrupled_count = 8 /\ results[1].doubled_count = 4
    /\ Count(results[1].mirror_numbers, 88) = 2

=====
